---- MODULE Spec2Model ----
(***************************************************************************)
(* A model of hallmonitor.py, the ZNC module that watches private and      *)
(* channel messages and publishes matching ones to an SNS topic through a  *)
(* signed HTTP GET.                                                        *)
(*                                                                         *)
(* A Python str is a sequence of characters, each character a one-element  *)
(* TLA+ string; the one non-ASCII character of the model, U+00E9, is the   *)
(* string "U+00E9" (the grave accent, which the lexer does not take in a   *)
(* string, is "U+0060").  A Python value held in the configuration is a    *)
(* record [t, v] whose t is its runtime type ("list", "bool" or "str").    *)
(***************************************************************************)
EXTENDS Integers, Sequences, FiniteSets, TLC

(***************************************************************************)
(* Characters and the str methods the module uses.                         *)
(***************************************************************************)

\* The printable ASCII characters, code points 32 to 126, in order.
Printable ==
    << " ", "!", "\"", "#", "$", "%", "&", "'", "(", ")", "*", "+", ",", "-", ".", "/",
       "0", "1", "2", "3", "4", "5", "6", "7", "8", "9", ":", ";", "<", "=", ">", "?",
       "@", "A", "B", "C", "D", "E", "F", "G", "H", "I", "J", "K", "L", "M", "N", "O",
       "P", "Q", "R", "S", "T", "U", "V", "W", "X", "Y", "Z", "[", "\\", "]", "^", "_",
       "U+0060", "a", "b", "c", "d", "e", "f", "g", "h", "i", "j", "k", "l", "m", "n", "o",
       "p", "q", "r", "s", "t", "u", "v", "w", "x", "y", "z", "{", "|", "}", "~" >>

EAcute == "U+00E9"

Newline == "\n"

Chars == {Printable[i] : i \in 1..Len(Printable)} \cup {Newline, EAcute}

\* ord(c)
Ord ==
    [c \in Chars |->
        IF c = Newline THEN 10
        ELSE IF c = EAcute THEN 233
        ELSE 31 + (CHOOSE i \in 1..Len(Printable) : Printable[i] = c)]

\* chr(n), for the code points of Chars
Chr(n) == CHOOSE c \in Chars : Ord[c] = n

\* What bytes(s, 'ascii') accepts: every code point below 128.
IsAscii(s) == \A i \in 1..Len(s) : Ord[s[i]] < 128

\* c.lower(): A-Z map to a-z; U+00E9 is already lower case.
LowerChar ==
    [c \in Chars |-> IF Ord[c] >= 65 /\ Ord[c] <= 90 THEN Chr(Ord[c] + 32) ELSE c]

\* s.lower()
Lower(s) == [i \in 1..Len(s) |-> LowerChar[s[i]]]

\* sub in s
Contains(sub, s) ==
    \E i \in 0..(Len(s) - Len(sub)) : SubSeq(s, i + 1, i + Len(sub)) = sub

\* c.isspace(), for the characters of Chars
IsSpace(c) == c = " " \/ c = Newline

\* The k-th least of a set of positions
Nth(positions, k) ==
    CHOOSE p \in positions : Cardinality({q \in positions : q < p}) = k - 1

\* s.split(): the runs of non-whitespace characters
Split(s) ==
    LET starts == {i \in 1..Len(s) : ~IsSpace(s[i]) /\ (i = 1 \/ IsSpace(s[i - 1]))}
        ends == {i \in 1..Len(s) : ~IsSpace(s[i]) /\ (i = Len(s) \/ IsSpace(s[i + 1]))}
    IN  [k \in 1..Cardinality(starts) |-> SubSeq(s, Nth(starts, k), Nth(ends, k))]

\* s.split(sep) for a one-character sep: the fields between the separators,
\* the empty ones kept
SplitOn(s, sep) ==
    LET seps == {i \in 1..Len(s) : s[i] = sep}
        cut(k) == IF k = 0 THEN 0
                  ELSE IF k > Cardinality(seps) THEN Len(s) + 1
                  ELSE Nth(seps, k)
    IN  [k \in 1..(Cardinality(seps) + 1) |-> SubSeq(s, cut(k - 1) + 1, cut(k) - 1)]

RECURSIVE Join(_, _)
\* sep.join(parts)
Join(sep, parts) ==
    IF parts = <<>> THEN <<>>
    ELSE IF Len(parts) = 1 THEN parts[1]
    ELSE parts[1] \o sep \o Join(sep, Tail(parts))

(***************************************************************************)
(* json.dumps and json.loads on the values the module stores: booleans,    *)
(* strings and lists of strings.                                           *)
(***************************************************************************)

PyBool(b) == [t |-> "bool", v |-> b]
PyStr(s) == [t |-> "str", v |-> s]
PyList(l) == [t |-> "list", v |-> l]

HexDigits == <<"0", "1", "2", "3", "4", "5", "6", "7", "8", "9", "a", "b", "c", "d", "e", "f">>

\* The value of one hexadecimal digit, either case.
HexVal(c) == (CHOOSE i \in 1..16 : HexDigits[i] = LowerChar[c]) - 1

\* json.dumps escapes, ensure_ascii=True: the quote, the backslash, the
\* newline, and \uXXXX for every code point above 126.
JsonEscape ==
    [c \in Chars |->
        IF c = "\"" THEN <<"\\", "\"">>
        ELSE IF c = "\\" THEN <<"\\", "\\">>
        ELSE IF c = Newline THEN <<"\\", "n">>
        ELSE IF Ord[c] > 126
             THEN <<"\\", "u",
                    HexDigits[((Ord[c] \div 4096) % 16) + 1],
                    HexDigits[((Ord[c] \div 256) % 16) + 1],
                    HexDigits[((Ord[c] \div 16) % 16) + 1],
                    HexDigits[(Ord[c] % 16) + 1]>>
             ELSE <<c>>]

RECURSIVE Flatten(_)
\* The parts, concatenated
Flatten(parts) ==
    IF Len(parts) = 0 THEN <<>>
    ELSE IF Len(parts) = 1 THEN parts[1]
    ELSE Flatten(SubSeq(parts, 1, Len(parts) \div 2))
         \o Flatten(SubSeq(parts, (Len(parts) \div 2) + 1, Len(parts)))

JsonString(s) ==
    <<"\"">> \o Flatten([i \in 1..Len(s) |-> JsonEscape[s[i]]]) \o <<"\"">>

\* json.dumps(value)
JsonDumps(value) ==
    CASE value.t = "bool" ->
           IF value.v THEN <<"t", "r", "u", "e">> ELSE <<"f", "a", "l", "s", "e">>
      [] value.t = "str" -> JsonString(value.v)
      [] value.t = "list" ->
           <<"[">> \o Join(<<",", " ">>, [i \in 1..Len(value.v) |-> JsonString(value.v[i])])
                   \o <<"]">>

\* How many backslashes stand immediately before position j.
BackslashesBefore(s, j) ==
    CHOOSE k \in 0..(j - 1) :
        /\ \A m \in 1..k : s[j - m] = "\\"
        /\ k = j - 1 \/ s[j - k - 1] # "\\"

\* The character at position j follows the backslash that starts an escape.
IsEscaped(s, j) == BackslashesBefore(s, j) % 2 = 1

\* The positions of the quotes that open and close the string literals.
Quotes(s) == {j \in 1..Len(s) : s[j] = "\"" /\ ~IsEscaped(s, j)}

\* The code point written by the four hexadecimal digits after position j.
Hex4(s, j) ==
    HexVal(s[j + 1]) * 4096 + HexVal(s[j + 2]) * 256 + HexVal(s[j + 3]) * 16
    + HexVal(s[j + 4])

\* What the character at position j of a string literal adds to the string:
\* nothing for a backslash that starts an escape and for the digits of a
\* \uXXXX, the character named for an escaped one, itself otherwise.
Decoded(s, j) ==
    IF IsEscaped(s, j)
    THEN IF s[j] = "u" THEN <<Chr(Hex4(s, j))>>
         ELSE IF s[j] = "n" THEN <<Newline>>
         ELSE <<s[j]>>
    ELSE IF s[j] = "\\" THEN <<>>
    ELSE IF \E d \in 1..4 : j - d >= 1 /\ s[j - d] = "u" /\ IsEscaped(s, j - d) THEN <<>>
    ELSE <<s[j]>>

\* The string whose literal has its quotes at positions open and close.
ParseString(s, open, close) ==
    Flatten([k \in 1..(close - open - 1) |-> Decoded(s, open + k)])

\* The strings of an array of string literals.
ParseList(s) ==
    [k \in 1..(Cardinality(Quotes(s)) \div 2) |->
        ParseString(s, Nth(Quotes(s), 2 * k - 1), Nth(Quotes(s), 2 * k))]

\* json.loads(text)
JsonLoads(text) ==
    CASE text = <<"t", "r", "u", "e">> -> PyBool(TRUE)
      [] text = <<"f", "a", "l", "s", "e">> -> PyBool(FALSE)
      [] text # <<>> /\ Head(text) = "\"" -> PyStr(ParseString(text, 1, Len(text)))
      [] text # <<>> /\ Head(text) = "[" -> PyList(ParseList(text))

(***************************************************************************)
(* The configuration keys and their declarations (OnLoad, config_values).  *)
(***************************************************************************)

K_monitor_channels ==
    <<"m", "o", "n", "i", "t", "o", "r", "_", "c", "h", "a", "n", "n", "e", "l", "s">>

K_trigger_pms ==
    <<"t", "r", "i", "g", "g", "e", "r", "_", "p", "m", "s">>

K_trigger_words ==
    <<"t", "r", "i", "g", "g", "e", "r", "_", "w", "o", "r", "d", "s">>

K_endpoint ==
    <<"e", "n", "d", "p", "o", "i", "n", "t">>

K_sns_topic ==
    <<"s", "n", "s", "_", "t", "o", "p", "i", "c">>

K_aws_access_key ==
    <<"a", "w", "s", "_", "a", "c", "c", "e", "s", "s", "_", "k", "e", "y">>

K_aws_secret_key ==
    <<"a", "w", "s", "_", "s", "e", "c", "r", "e", "t", "_", "k", "e", "y">>

K_always_send_notifications ==
    <<"a", "l", "w", "a", "y", "s", "_", "s", "e", "n", "d", "_", "n", "o", "t", "i", "f", "i", "c", "a", "t", "i", "o", "n", "s">>

K_auto_notifications_on_dc ==
    <<"a", "u", "t", "o", "_", "n", "o", "t", "i", "f", "i", "c", "a", "t", "i", "o", "n", "s", "_", "o", "n", "_", "d", "c">>

K_nv_version ==
    <<"n", "v", "_", "v", "e", "r", "s", "i", "o", "n">>

K_help ==
    <<"h", "e", "l", "p">>

NV_VERSION == <<"1", ".", "0", ".", "0">>

DefaultEndpoint ==
    <<"s", "n", "s", ".", "u", "s", "-", "e", "a", "s", "t", "-", "1", ".", "a", "m", "a", "z", "o", "n", "a", "w", "s", ".", "c", "o", "m">>

\* The keys of config_values, in the order the dict literal declares them.
ConfigKeys ==
    <<K_monitor_channels,
      K_trigger_pms,
      K_trigger_words,
      K_endpoint,
      K_sns_topic,
      K_aws_access_key,
      K_aws_secret_key,
      K_always_send_notifications,
      K_auto_notifications_on_dc>>

ConfigKeySet == {ConfigKeys[i] : i \in 1..Len(ConfigKeys)}

config_values ==
    (K_monitor_channels :> [type |-> "list",
           desc |-> "A comma-separated list of channels to notify in. Include the #. Must be lowercased.",
           default |-> PyList(<<>>)])
    @@ (K_trigger_pms :> [type |-> "bool",
           desc |-> "Trigger notifications on PMs. Use \"on\" or \"off\".",
           default |-> PyBool(TRUE)])
    @@ (K_trigger_words :> [type |-> "list",
           desc |-> "A comma-separated list of words to notify on. Must be lowercased.",
           default |-> PyList(<<>>)])
    @@ (K_endpoint :> [type |-> "str",
           desc |-> "Endpoint to use when communicating with SNS. Only the subdomain.",
           default |-> PyStr(DefaultEndpoint)])
    @@ (K_sns_topic :> [type |-> "str",
           desc |-> "SNS Topic to send notifications to.",
           default |-> PyStr(<<>>)])
    @@ (K_aws_access_key :> [type |-> "str",
           desc |-> "AWS Access Key.",
           default |-> PyStr(<<>>)])
    @@ (K_aws_secret_key :> [type |-> "str",
           desc |-> "AWS Secret Key.",
           default |-> PyStr(<<>>)])
    @@ (K_always_send_notifications :> [type |-> "bool",
           desc |-> "Always send notifications, regardless of client status. Use \"on\" or \"off\".",
           default |-> PyBool(FALSE)])
    @@ (K_auto_notifications_on_dc :> [type |-> "bool",
           desc |-> "Automatically enable notifications when a client disconnects. Use \"on\" of \"off\".",
           default |-> PyBool(FALSE)])

(***************************************************************************)
(* The signed publisher's pure parts (_notify, lines 170 to 199).          *)
(***************************************************************************)

UpperHex == <<"0", "1", "2", "3", "4", "5", "6", "7", "8", "9", "A", "B", "C", "D", "E", "F">>

\* The UTF-8 bytes of a code point below 2048.
Utf8(cp) == IF cp < 128 THEN <<cp>> ELSE <<192 + (cp \div 64), 128 + (cp % 64)>>

\* %XX for one byte
PercentByte(b) == <<"%", UpperHex[(b \div 16) + 1], UpperHex[(b % 16) + 1]>>

\* The characters urllib.parse.quote never encodes: the letters, the digits
\* and "_", ".", "-" (the interpreter the source names, 3.4, encodes "~").
AlwaysSafe(c) ==
    \/ Ord[c] >= 48 /\ Ord[c] <= 57
    \/ Ord[c] >= 65 /\ Ord[c] <= 90
    \/ Ord[c] >= 97 /\ Ord[c] <= 122
    \/ c \in {"_", ".", "-"}

QuoteChar ==
    [c \in Chars |->
        IF AlwaysSafe(c) THEN <<c>>
        ELSE Flatten([i \in 1..Len(Utf8(Ord[c])) |-> PercentByte(Utf8(Ord[c])[i])])]

\* urllib.parse.quote(s, safe='')
Quote(s) == Flatten([i \in 1..Len(s) |-> QuoteChar[s[i]]])

RECURSIVE StrLess(_, _)
\* a < b on str: by code point, a proper prefix first
StrLess(a, b) ==
    IF b = <<>> THEN FALSE
    ELSE IF a = <<>> THEN TRUE
    ELSE IF Ord[Head(a)] # Ord[Head(b)] THEN Ord[Head(a)] < Ord[Head(b)]
    ELSE StrLess(Tail(a), Tail(b))

RECURSIVE Sorted_Reversed(_)
\* sorted(keys, reverse=True)
Sorted_Reversed(keys) ==
    IF keys = {} THEN <<>>
    ELSE LET greatest == CHOOSE k \in keys : \A j \in keys \ {k} : StrLess(j, k)
         IN  <<greatest>> \o Sorted_Reversed(keys \ {greatest})

RECURSIVE Sorted(_)
\* sorted(keys)
Sorted(keys) ==
    IF keys = {} THEN <<>>
    ELSE LET least == CHOOSE k \in keys : \A j \in keys \ {k} : StrLess(k, j)
         IN  <<least>> \o Sorted(keys \ {least})

\* Two decimal digits
TwoDigits(n) == <<Chr(48 + (n \div 10)), Chr(48 + (n % 10))>>

\* strftime("%Y-%m-%dT%H:%M:%S.000Z", gmtime(now)) for a clock reading in the
\* first day of the epoch.
Strftime(now) ==
    <<"1", "9", "7", "0", "-", "0", "1", "-", "0", "1", "T">>
    \o TwoDigits(now \div 3600) \o <<":">> \o TwoDigits((now % 3600) \div 60)
    \o <<":">> \o TwoDigits(now % 60) \o <<".", "0", "0", "0", "Z">>

P_TopicArn == <<"T", "o", "p", "i", "c", "A", "r", "n">>
P_Message == <<"M", "e", "s", "s", "a", "g", "e">>
P_Timestamp == <<"T", "i", "m", "e", "s", "t", "a", "m", "p">>
P_AWSAccessKeyId == <<"A", "W", "S", "A", "c", "c", "e", "s", "s", "K", "e", "y", "I", "d">>
P_Action == <<"A", "c", "t", "i", "o", "n">>
P_SignatureVersion ==
    <<"S", "i", "g", "n", "a", "t", "u", "r", "e", "V", "e", "r", "s", "i", "o", "n">>
P_SignatureMethod ==
    <<"S", "i", "g", "n", "a", "t", "u", "r", "e", "M", "e", "t", "h", "o", "d">>

\* The params dict of _notify.
Params(cfg, msg, now) ==
    (P_TopicArn :> cfg[K_sns_topic].v)
    @@ (P_Message :> msg)
    @@ (P_Timestamp :> Strftime(now))
    @@ (P_AWSAccessKeyId :> cfg[K_aws_access_key].v)
    @@ (P_Action :> <<"P", "u", "b", "l", "i", "s", "h">>)
    @@ (P_SignatureVersion :> <<"2">>)
    @@ (P_SignatureMethod :> <<"H", "m", "a", "c", "S", "H", "A", "2", "5", "6">>)

\* params_http: "k=v&" for each key in sorted order, the last "&" cut off.
ParamsHttp(params) ==
    LET params_keys == Sorted(DOMAIN params)
        built == Flatten([i \in 1..Len(params_keys) |->
                     Quote(params_keys[i]) \o <<"=">> \o Quote(params[params_keys[i]])
                     \o <<"&">>])
    IN  SubSeq(built, 1, Len(built) - 1)

\* '\n'.join(['GET', endpoint, '/', params_http])
StringToSign(host, params_http) ==
    Join(<<Newline>>, << <<"G", "E", "T">>, host, <<"/">>, params_http >>)

\* quote_plus(base64(HMAC-SHA256(key, msg))): the digest is not computed; the
\* signature is the term naming the key and the message it is taken over.
Signature(key, msg) ==
    [digestmod |-> "sha256", key |-> key, msg |-> msg]

\* The URL fetched: its text up to and including "&Signature=", then the
\* signature.
Url(host, params_http, signature) ==
    [text |-> <<"h", "t", "t", "p", ":", "/", "/">> \o host \o <<"/", "?">> \o params_http
              \o <<"&", "S", "i", "g", "n", "a", "t", "u", "r", "e", "=">>,
     signature |-> signature]

(***************************************************************************)
(* The state: the host's NV store, the module's loaded copy, whether a     *)
(* client is attached, and what the last handler call did.                 *)
(***************************************************************************)

VARIABLES
    nv,          \* self.nv: stored key -> stored text
    loaded_nv,   \* self.loaded_nv: configuration key -> Python value
    attached,    \* what self.GetUser().IsUserAttached() returns
    dc_session,  \* a disconnect was handled with auto_notifications_on_dc on,
                 \* and no set command or load has come since
    event,       \* the last handler call and its arguments
    notified,    \* the _notify calls it made: <<[who, message, force]>> or <<>>
    published,   \* the requests that passed both returns of _notify, with
                 \* the params_http and string_to_sign built for each
    http_gets,   \* the URLs it passed to urllib.request.urlopen
    returned,    \* what it returned, or the exception it raised
    put_module   \* the lines it passed to self.PutModule

vars ==
    <<nv, loaded_nv, attached, dc_session, event, notified, published, http_gets,
      returned, put_module>>

\* The largest clock reading.
MaxTime == 1

\* What time() may return.
Clock == 0..MaxTime

\* urlopen(url).read() returns, or raises.
Network == {"ok", "error"}

Nicks == { <<"B", "o", "b">> }

Channels == { <<"#", "O", "p", "s">>, <<"#", "d", "e", "v">> }

Messages == { <<"a", "n", " ", "O", "u", "t", "a", "g", "e">>, <<"h", "i">> }

Cmd(key, rest) == key \o <<" ">> \o rest

\* The operator's command lines.
CommandMessages ==
    { Cmd(K_monitor_channels, <<"#", "o", "p", "s", ",", " ", "#", "q", "a">>),
      Cmd(K_trigger_words, <<"d", "o", "w", "n", " ", ",", "O", "U", "T", "A", "G", "E">>),
      Cmd(K_trigger_pms, <<"o", "f", "f">>),
      Cmd(K_trigger_pms, <<"o", "n">>),
      Cmd(K_always_send_notifications, <<"O", "N">>),
      Cmd(K_always_send_notifications, <<"o", "f", "f">>),
      Cmd(K_auto_notifications_on_dc, <<"o", "n">>),
      Cmd(K_auto_notifications_on_dc, <<"n", "o">>),
      Cmd(K_endpoint, <<"s", "n", "s", ".", EAcute, " ", "x">>),
      Cmd(K_sns_topic, <<"a", "r", "n", ":", "t">>),
      Cmd(K_aws_access_key, <<"A", "K", "\"", EAcute>>),
      Cmd(K_aws_secret_key, <<"s", "/", "K">>),
      Cmd(K_aws_secret_key, <<"s", EAcute>>),
      K_aws_secret_key,
      <<" ">> \o K_trigger_words \o <<" ", " ">>,
      K_help,
      Cmd(K_nv_version, <<"2">>),
      <<" ">> }

\* What the host's store may hold when the module is loaded: nothing, what an
\* older version of the module wrote, or some of the keys.
InitialStores ==
    { <<>>,
      (K_nv_version :> <<"0", ".", "9">>) @@ (K_aws_secret_key :> JsonDumps(PyStr(<<"o", "l", "d">>))),
      (K_nv_version :> NV_VERSION) @@ (K_sns_topic :> JsonDumps(PyStr(<<"a", "r", "n", ":", "t">>)))
          @@ (K_trigger_pms :> JsonDumps(PyBool(FALSE))) }

\* One self.PutModule(fmt.format(args)) call.
Line(fmt, args) == [fmt |-> fmt, args |-> args]

NoEvent == [handler |-> "OnLoad", nick |-> <<>>, channel |-> <<>>, message |-> <<>>]

Request(who, message, force) == [who |-> who, message |-> message, force |-> force]

(***************************************************************************)
(* OnLoad, _load_from_nv, _set_nv                                          *)
(***************************************************************************)

\* self.nv after OnLoad's "fill in the defaults"
OnLoadNv(store) ==
    LET force_write ==
            K_nv_version \notin DOMAIN store \/ store[K_nv_version] # NV_VERSION
        versioned ==
            IF force_write THEN (K_nv_version :> NV_VERSION) @@ store ELSE store
    IN  [key \in DOMAIN versioned \cup ConfigKeySet |->
            IF key \in ConfigKeySet /\ (key \notin DOMAIN versioned \/ force_write)
            THEN JsonDumps(config_values[key].default)
            ELSE versioned[key]]

\* self.loaded_nv after _load_from_nv
LoadFromNv(store) == [key \in ConfigKeySet |-> JsonLoads(store[key])]

\* self.nv after _set_nv(key, value)
SetNvStore(store, key, value) == [store EXCEPT ![key] = JsonDumps(value)]

\* _set_nv without its second assignment
SetNvLoaded_Skip(loaded, key, value) == loaded

\* self.loaded_nv after _set_nv(key, value)
SetNvLoaded(loaded, key, value) == [loaded EXCEPT ![key] = value]

Init ==
    /\ \E store \in InitialStores :
          \E filled \in {OnLoadNv(store)} :
              /\ nv = filled
              /\ loaded_nv = LoadFromNv(filled)
    /\ attached \in BOOLEAN
    /\ dc_session = FALSE
    /\ event = NoEvent
    /\ notified = <<>>
    /\ published = <<>>
    /\ http_gets = <<>>
    /\ returned = "True"
    /\ put_module = <<>>

\* The host loads the module again on the store as it stands.
OnLoad ==
    /\ \E filled \in {OnLoadNv(nv)} :
          /\ nv' = filled
          /\ loaded_nv' = LoadFromNv(filled)
    /\ dc_session' = FALSE
    /\ event' = NoEvent
    /\ notified' = <<>>
    /\ published' = <<>>
    /\ http_gets' = <<>>
    /\ returned' = "True"
    /\ put_module' = <<>>
    /\ UNCHANGED attached

(***************************************************************************)
(* OnModCommand                                                            *)
(***************************************************************************)

\* The two lines the help lists for each key.
HelpLines(store) ==
    Flatten([i \in 1..Len(ConfigKeys) |->
        << Line("- {}: {}", <<ConfigKeys[i], config_values[ConfigKeys[i]].desc>>),
           Line("-- Value: {}", <<store[ConfigKeys[i]]>>) >>])

\* Every value stored as the word given
CommandValue_Untyped(item, msg) == PyStr(msg[2])

\* The value a set command stores: by the key's declared type.
CommandValue(item, msg) ==
    IF item.type = "list" THEN PyList(SplitOn(Join(<<" ">>, Tail(msg)), ","))
    ELSE IF item.type = "bool" THEN PyBool(Lower(msg[2]) = <<"o", "n">>)
    ELSE PyStr(msg[2])

OnModCommand ==
    \E message \in CommandMessages :
      \E msg \in {Split(message)} :
        /\ event' = [handler |-> "OnModCommand", nick |-> <<>>, channel |-> <<>>,
                     message |-> message]
        /\ notified' = <<>>
        /\ published' = <<>>
        /\ http_gets' = <<>>
        /\ UNCHANGED attached
        /\ IF msg = <<>>
           THEN \* msg[0] raises
                /\ returned' = "IndexError"
                /\ put_module' = <<>>
                /\ UNCHANGED <<nv, loaded_nv, dc_session>>
           ELSE IF msg[1] \notin DOMAIN config_values \/ msg[1] = K_help
           THEN \* help, or an unknown key
                /\ returned' = "CONTINUE"
                /\ put_module' =
                      (IF msg[1] # K_help
                       THEN <<Line("Unknown command option \"{}\".", <<msg[1]>>)>>
                       ELSE <<>>)
                      \o <<Line("Usage: config-key [config value]. If you do not give a value, I will return the current value.", <<>>),
                           Line("The following config keys are available:", <<>>)>>
                      \o HelpLines(nv)
                /\ UNCHANGED <<nv, loaded_nv, dc_session>>
           ELSE IF Len(msg) = 1
           THEN \* the value is read
                /\ returned' = "CONTINUE"
                /\ put_module' = <<Line("{}: {}", <<msg[1], nv[msg[1]]>>)>>
                /\ UNCHANGED <<nv, loaded_nv, dc_session>>
           ELSE \* the value is set
                \E val \in {CommandValue(config_values[msg[1]], msg)} :
                  \E stored \in {SetNvStore(nv, msg[1], val)} :
                    /\ nv' = stored
                    /\ loaded_nv' = SetNvLoaded(loaded_nv, msg[1], val)
                    /\ dc_session' = FALSE
                    /\ returned' = "None"
                    /\ put_module' =
                          <<Line("{} has been set to: {}", <<msg[1], stored[msg[1]]>>)>>

(***************************************************************************)
(* _notify                                                                 *)
(***************************************************************************)

\* The gate without "and not force"
Gate_NoForce(cfg, att, force) ==
    \/ cfg[K_always_send_notifications].v
    \/ cfg[K_auto_notifications_on_dc].v /\ ~att

\* The gate without "and not ...IsUserAttached()"
Gate_IgnoreAttached(cfg, att, force) ==
    \/ cfg[K_always_send_notifications].v
    \/ cfg[K_auto_notifications_on_dc].v
    \/ force

\* notify or force: the first return of _notify is not taken.
Gate(cfg, att, force) ==
    \/ cfg[K_always_send_notifications].v
    \/ cfg[K_auto_notifications_on_dc].v /\ ~att
    \/ force

\* The second return without the aws_secret_key test
Configured_NoSecret(cfg) ==
    ~ \/ Len(cfg[K_aws_access_key].v) = 0
      \/ Len(cfg[K_sns_topic].v) = 0

\* The second return of _notify is not taken.
Configured(cfg) ==
    ~ \/ Len(cfg[K_aws_access_key].v) = 0
      \/ Len(cfg[K_aws_secret_key].v) = 0
      \/ Len(cfg[K_sns_topic].v) = 0

\* The request reaches the lines that build and send the URL.
Publishes(cfg, att, force) == Gate(cfg, att, force) /\ Configured(cfg)

\* What one _notify call does: the request built (if it got that far), the
\* URL fetched (if the signing did not raise), the exception that leaves
\* _notify, and the lines put to the operator.
Notify(cfg, att, req, now, net) ==
    IF ~Publishes(cfg, att, req.force)
    THEN [published |-> <<>>, gets |-> <<>>, raised |-> "none", put |-> <<>>]
    ELSE LET msg == req.who \o <<" ", "-", " ">> \o req.message
             host == cfg[K_endpoint].v
             params_http == ParamsHttp(Params(cfg, msg, now))
             string_to_sign == StringToSign(host, params_http)
             built == [params_http |-> params_http, string_to_sign |-> string_to_sign]
             url == Url(host, params_http,
                        Signature(cfg[K_aws_secret_key].v, string_to_sign))
         IN  IF ~IsAscii(cfg[K_aws_secret_key].v) \/ ~IsAscii(string_to_sign)
             THEN \* bytes(..., 'ascii') raises, outside the try
                  [published |-> <<built>>, gets |-> <<>>,
                   raised |-> "UnicodeEncodeError", put |-> <<>>]
             ELSE [published |-> <<built>>, gets |-> <<url>>, raised |-> "none",
                   put |-> IF net = "error"
                           THEN <<Line("[DEBUG] URL: {}", <<url>>),
                                  Line("[DEBUG] Exception: {}", <<"URLError">>)>>
                           ELSE <<>>]

\* The clock readings and network outcomes a call can meet: _notify reads
\* neither unless the request is published.
ClockRead(cfg, att, force) == IF Publishes(cfg, att, force) THEN Clock ELSE {0}
NetworkRead(cfg, att, force) ==
    IF Publishes(cfg, att, force) /\ IsAscii(cfg[K_aws_secret_key].v)
          /\ IsAscii(cfg[K_endpoint].v)
    THEN Network ELSE {"ok"}

\* A handler that called _notify(req) once and then returns ret.
Notifying(ev, att, req, ret) ==
    \E now \in ClockRead(loaded_nv, att, req.force),
       net \in NetworkRead(loaded_nv, att, req.force) :
        \E done \in {Notify(loaded_nv, att, req, now, net)} :
            /\ event' = ev
            /\ notified' = <<req>>
            /\ published' = done.published
            /\ http_gets' = done.gets
            /\ returned' = IF done.raised # "none" THEN done.raised ELSE ret
            /\ put_module' = done.put

\* A handler that returns ret without calling _notify.
Silent(ev, ret) ==
    /\ event' = ev
    /\ notified' = <<>>
    /\ published' = <<>>
    /\ http_gets' = <<>>
    /\ returned' = ret
    /\ put_module' = <<>>

(***************************************************************************)
(* The event handlers                                                      *)
(***************************************************************************)

\* The host reports that a client attached.
ClientAttach ==
    /\ attached' = TRUE
    /\ Silent([handler |-> "ClientAttach", nick |-> <<>>, channel |-> <<>>,
               message |-> <<>>], "None")
    /\ UNCHANGED <<nv, loaded_nv, dc_session>>

\* A client detaches; others may stay attached.
OnClientDisconnect ==
    /\ attached
    /\ \E still \in BOOLEAN :
        \E ev \in {[handler |-> "OnClientDisconnect", nick |-> <<>>, channel |-> <<>>,
                    message |-> <<>>]} :
            /\ attached' = still
            /\ IF loaded_nv[K_auto_notifications_on_dc].v
               THEN /\ Notifying(ev, still,
                          Request(<<"H", "a", "l", "l", "M", "o", "n", "i", "t", "o", "r">>,
                                  <<"D", "e", "t", "e", "c", "t", "e", "d", " ", "c", "l", "i", "e", "n", "t", " ", "d", "i", "s", "c", "o", "n", "n", "e", "c", "t", ".", " ", "E", "n", "a", "b", "l", "i", "n", "g", " ", "n", "o", "t", "i", "f", "i", "c", "a", "t", "i", "o", "n", "s", ".">>,
                                  TRUE),
                          "None")
                    /\ dc_session' = TRUE
               ELSE /\ Silent(ev, "None")
                    /\ UNCHANGED dc_session
            /\ UNCHANGED <<nv, loaded_nv>>

\* OnPrivMsg without its test
TriggerPms_Ignored(cfg) == TRUE

\* if self.loaded_nv['trigger_pms']
TriggerPms(cfg) == cfg[K_trigger_pms].v

OnPrivMsg ==
    \E nick \in Nicks, message \in Messages :
        \E ev \in {[handler |-> "OnPrivMsg", nick |-> nick, channel |-> <<>>,
                    message |-> message]} :
            /\ IF TriggerPms(loaded_nv)
               THEN Notifying(ev, attached, Request(nick \o <<"@">>, message, FALSE),
                              "CONTINUE")
               ELSE Silent(ev, "CONTINUE")
            /\ UNCHANGED <<nv, loaded_nv, attached, dc_session>>

RECURSIVE FirstTrigger(_, _, _)
\* The for loop of OnChanMsg: the index of the first trigger word found in
\* the message, 0 when the loop ends without a break.
FirstTrigger(trigger_words, msg, i) ==
    IF i > Len(trigger_words) THEN 0
    ELSE IF Contains(Lower(trigger_words[i]), Lower(msg)) THEN i
    ELSE FirstTrigger(trigger_words, msg, i + 1)

\* triggered, after the loop
Triggered(trigger_words, msg) == FirstTrigger(trigger_words, msg, 1) # 0

\* channel in monitor_channels
Monitored_NoLower(monitor_channels, channel) ==
    \E i \in 1..Len(monitor_channels) : monitor_channels[i] = channel

\* channel.lower() in monitor_channels
Monitored(monitor_channels, channel) ==
    \E i \in 1..Len(monitor_channels) : monitor_channels[i] = Lower(channel)

OnChanMsg ==
    \E nick \in Nicks, channel \in Channels, message \in Messages :
        \E ev \in {[handler |-> "OnChanMsg", nick |-> nick, channel |-> channel,
                    message |-> message]} :
            /\ IF ~Monitored(loaded_nv[K_monitor_channels].v, channel)
               THEN Silent(ev, "CONTINUE")
               ELSE IF Triggered(loaded_nv[K_trigger_words].v, message)
               THEN Notifying(ev, attached,
                        Request(channel \o <<" ", "(">> \o nick \o <<"@", ")">>,
                                message, FALSE),
                        "CONTINUE")
               ELSE Silent(ev, "CONTINUE")
            /\ UNCHANGED <<nv, loaded_nv, attached, dc_session>>

Next ==
    \/ OnLoad
    \/ OnModCommand
    \/ ClientAttach
    \/ OnClientDisconnect
    \/ OnPrivMsg
    \/ OnChanMsg

Spec == Init /\ [][Next]_vars

(***************************************************************************)
(* The properties.                                                         *)
(***************************************************************************)

Value(key) == loaded_nv[key].v

MessageHandlers == {"OnPrivMsg", "OnChanMsg"}

EventHandlers == MessageHandlers \cup {"OnClientDisconnect"}

Normal == {"CONTINUE", "None"}

\* w, whatever its case, occurs in t, whatever its case.
CaseInsensitiveSubstring(w, t) ==
    \E i \in 0..(Len(t) - Len(w)) :
        \A j \in 1..Len(w) : LowerChar[w[j]] = LowerChar[t[i + j]]

\* Every order the words of a list can be given in.
Orders(words) ==
    { [i \in 1..Len(words) |-> words[p[i]]] : p \in Permutations(1..Len(words)) }

\* The byte an escape starting at position i stands for
EscapedByte(s, i) == HexVal(s[i + 1]) * 16 + HexVal(s[i + 2])

\* Percent-decoding: %XX is a byte, a byte from 192 up starts a two-byte
\* UTF-8 sequence, and every other character stands for itself.
Unquote(s) ==
    Flatten([i \in 1..Len(s) |->
        IF (i > 1 /\ s[i - 1] = "%") \/ (i > 2 /\ s[i - 2] = "%") THEN <<>>
        ELSE IF s[i] # "%" THEN <<s[i]>>
        ELSE IF EscapedByte(s, i) < 128 THEN <<Chr(EscapedByte(s, i))>>
        ELSE IF EscapedByte(s, i) < 192 THEN <<>>
        ELSE <<Chr((EscapedByte(s, i) - 192) * 64 + EscapedByte(s, i + 3) - 128)>>])

\* C1: a channel message makes a request exactly when its channel, lower
\* cased, is in monitor_channels and some trigger word is a case-insensitive
\* substring of its text; the request is then {channel} ({sender}@), the text
\* unchanged, not forced; and no other order of trigger_words decides
\* otherwise.
C1_ChanMsgRequest ==
    event.handler = "OnChanMsg" =>
        LET monitored ==
                \E i \in 1..Len(Value(K_monitor_channels)) :
                    Value(K_monitor_channels)[i] = Lower(event.channel)
            matched ==
                \E i \in 1..Len(Value(K_trigger_words)) :
                    CaseInsensitiveSubstring(Value(K_trigger_words)[i], event.message)
        IN  /\ notified # <<>> <=> (monitored /\ matched)
            /\ notified # <<>> =>
                  notified = <<[who |-> event.channel \o <<" ", "(">> \o event.nick
                                        \o <<"@", ")">>,
                                message |-> event.message,
                                force |-> FALSE]>>
            /\ monitored =>
                  \A order \in Orders(Value(K_trigger_words)) :
                      Triggered(order, event.message) <=> notified # <<>>

\* C1's case: a channel given in upper case is found in the list, and the
\* trigger word that matches is not the first of the list nor in the case
\* of the text.
C1_Witness ==
    /\ event.handler = "OnChanMsg"
    /\ notified # <<>>
    /\ event.channel # Lower(event.channel)
    /\ FirstTrigger(Value(K_trigger_words), event.message, 1) = 2
    /\ ~Contains(Value(K_trigger_words)[2], event.message)

\* C2: a private message makes a request exactly when trigger_pms is true,
\* and the request is then sender@, the text, not forced.
C2_PrivMsgRequest ==
    event.handler = "OnPrivMsg" =>
        /\ notified # <<>> <=> Value(K_trigger_pms)
        /\ notified # <<>> =>
              notified = <<[who |-> event.nick \o <<"@">>,
                            message |-> event.message,
                            force |-> FALSE]>>

\* C2's case: a private message makes a request although no channel is
\* monitored and no trigger word is set.
C2_Witness ==
    /\ event.handler = "OnPrivMsg"
    /\ notified # <<>>
    /\ Value(K_monitor_channels) = <<>>
    /\ Value(K_trigger_words) = <<>>

\* C3: a client disconnect makes a request exactly when
\* auto_notifications_on_dc is true; the request is forced, and with the
\* access key, the secret key and the topic set it passes both returns of
\* _notify whatever always_send_notifications and the attachment are.
C3_DisconnectForced ==
    event.handler = "OnClientDisconnect" =>
        /\ notified # <<>> <=> Value(K_auto_notifications_on_dc)
        /\ notified # <<>> =>
              /\ notified[1].force
              /\ notified[1].who = <<"H", "a", "l", "l", "M", "o", "n", "i", "t", "o", "r">>
              /\ (/\ Value(K_aws_access_key) # <<>>
                  /\ Value(K_aws_secret_key) # <<>>
                  /\ Value(K_sns_topic) # <<>>) => published # <<>>

\* C3's case: the disconnect is published while another client stays
\* attached and always_send_notifications is off.
C3_Witness ==
    /\ event.handler = "OnClientDisconnect"
    /\ notified # <<>>
    /\ attached
    /\ ~Value(K_always_send_notifications)
    /\ published # <<>>

\* C4: with the credentials and the topic set, a request is fetched over
\* HTTP exactly when always_send_notifications, or auto_notifications_on_dc
\* with no client attached, or the request is forced.
C4_GetIffGate ==
    (/\ notified # <<>>
     /\ Value(K_aws_access_key) # <<>>
     /\ Value(K_aws_secret_key) # <<>>
     /\ Value(K_sns_topic) # <<>>) =>
        (http_gets # <<>> <=>
            \/ Value(K_always_send_notifications)
            \/ Value(K_auto_notifications_on_dc) /\ ~attached
            \/ notified[1].force)

\* C5: while the access key, the secret key or the topic is empty no URL is
\* fetched, and the event handler returns without raising or reporting.
C5_NoGetUnconfigured ==
    (\/ Value(K_aws_access_key) = <<>>
     \/ Value(K_aws_secret_key) = <<>>
     \/ Value(K_sns_topic) = <<>>) =>
        /\ http_gets = <<>>
        /\ published = <<>>
        /\ event.handler \in EventHandlers => returned \in Normal /\ put_module = <<>>

\* C5's case: a forced request, the access key and the topic set, the secret
\* key empty.
C5_Witness ==
    /\ notified # <<>>
    /\ notified[1].force
    /\ Value(K_aws_access_key) # <<>>
    /\ Value(K_sns_topic) # <<>>
    /\ Value(K_aws_secret_key) = <<>>
    /\ http_gets = <<>>

\* C6: a handler whose request is published returns normally to the host,
\* fetches at most one URL and leaves the configuration as it was, whatever
\* the endpoint, the credentials and the message are and whether the fetch
\* succeeds or fails.
C6_PublishReturnsNormally ==
    [][published' # <<>> =>
          /\ returned' \in Normal
          /\ Len(http_gets') <= 1
          /\ nv' = nv
          /\ loaded_nv' = loaded_nv]_vars

C8_WriteThrough ==
    /\ DOMAIN loaded_nv = ConfigKeySet
    /\ ConfigKeySet \subseteq DOMAIN nv
    /\ \A key \in ConfigKeySet : loaded_nv[key] = JsonLoads(nv[key])

\* C8's case: a set command has just stored a value whose text escapes a
\* quote and a non-ASCII character.
C8_Witness ==
    /\ event.handler = "OnModCommand"
    /\ returned = "None"
    /\ \E i \in 1..Len(Value(K_aws_access_key)) : Value(K_aws_access_key)[i] = EAcute
    /\ \E i \in 1..Len(Value(K_aws_access_key)) : Value(K_aws_access_key)[i] = "\""
    /\ Len(nv[K_aws_access_key]) > Len(Value(K_aws_access_key)) + 2

\* The declared runtime type of a value.
HasType(value, type) ==
    /\ value.t = type
    /\ type = "bool" => value.v \in BOOLEAN
    /\ type = "str" => \A i \in 1..Len(value.v) : value.v[i] \in Chars
    /\ type = "list" =>
          \A i \in 1..Len(value.v) : \A j \in 1..Len(value.v[i]) : value.v[i][j] \in Chars

\* C9: a command whose first word is not a declared key is rejected and
\* changes neither copy of the configuration, a command that is only a key
\* changes neither, and after every step the loaded configuration has
\* exactly the declared keys, each with a value of its declared type.
C9_ClosedKeySet ==
    /\ [](/\ DOMAIN loaded_nv = ConfigKeySet
          /\ \A key \in ConfigKeySet : HasType(loaded_nv[key], config_values[key].type))
    /\ [][event'.handler = "OnModCommand" =>
            \A words \in {Split(event'.message)} :
                /\ (words # <<>> /\ words[1] \notin ConfigKeySet) =>
                      /\ nv' = nv
                      /\ loaded_nv' = loaded_nv
                      /\ returned' = "CONTINUE"
                      /\ words[1] # K_help =>
                            Head(put_module').fmt = "Unknown command option \"{}\"."
                /\ Len(words) = 1 =>
                      /\ nv' = nv
                      /\ loaded_nv' = loaded_nv]_vars

\* C9's case: a command naming a stored key that is not a configuration key
\* has been rejected.
C9_Witness ==
    /\ event.handler = "OnModCommand"
    /\ Split(event.message) # <<>>
    /\ Split(event.message)[1] = K_nv_version
    /\ returned = "CONTINUE"
    /\ Len(put_module) > 1

\* The seven parameter names, in ascending byte order.
ParameterNames ==
    <<P_AWSAccessKeyId, P_Action, P_Message, P_SignatureMethod, P_SignatureVersion,
      P_Timestamp, P_TopicArn>>

\* C10: the canonical query of a published request is seven key=value pairs
\* joined by "&", one for each parameter, in ascending byte order of the
\* names; its values decode to the topic, who - message, a timestamp, the
\* access key and the fixed values, and each is the one encoding of what it
\* decodes to; the string to sign is GET, the endpoint, "/" and that query,
\* one to a line; and the URL fetched is http://, the endpoint, "/?", that
\* query and the signature taken with the secret key over that string.
C10_CanonicalQuery ==
    published # <<>> =>
        LET query == published[1].params_http
            pairs == SplitOn(query, "&")
            name(i) == SplitOn(pairs[i], "=")[1]
            value(i) == SplitOn(pairs[i], "=")[2]
        IN  /\ Len(pairs) = Len(ParameterNames)
            /\ \A i \in 1..Len(pairs) : Len(SplitOn(pairs[i], "=")) = 2
            /\ \A i \in 1..Len(pairs) : name(i) = ParameterNames[i]
            /\ \A i \in 1..(Len(pairs) - 1) : StrLess(name(i), name(i + 1))
            /\ \A i \in 1..Len(pairs) : Quote(Unquote(value(i))) = value(i)
            /\ Unquote(value(1)) = Value(K_aws_access_key)
            /\ Unquote(value(2)) = <<"P", "u", "b", "l", "i", "s", "h">>
            /\ Unquote(value(3)) = notified[1].who \o <<" ", "-", " ">> \o notified[1].message
            /\ Unquote(value(4)) = <<"H", "m", "a", "c", "S", "H", "A", "2", "5", "6">>
            /\ Unquote(value(5)) = <<"2">>
            /\ \E now \in Clock : Unquote(value(6)) = Strftime(now)
            /\ Unquote(value(7)) = Value(K_sns_topic)
            /\ published[1].string_to_sign =
                  <<"G", "E", "T", Newline>> \o Value(K_endpoint) \o <<Newline, "/", Newline>>
                  \o query
            /\ http_gets # <<>> =>
                  /\ Len(http_gets) = 1
                  /\ http_gets[1].text =
                        <<"h", "t", "t", "p", ":", "/", "/">> \o Value(K_endpoint)
                        \o <<"/", "?">> \o query
                        \o <<"&", "S", "i", "g", "n", "a", "t", "u", "r", "e", "=">>
                  /\ http_gets[1].signature.key = Value(K_aws_secret_key)
                  /\ http_gets[1].signature.msg = published[1].string_to_sign

\* C10's case: a URL has been fetched whose query encodes a space, a quote
\* and a non-ASCII character.
C10_Witness ==
    /\ http_gets # <<>>
    /\ \E i \in 1..Len(Value(K_aws_access_key)) : Value(K_aws_access_key)[i] = EAcute
    /\ \E i \in 1..Len(notified[1].message) : notified[1].message[i] = " "
    /\ Len(published[1].params_http) > 100
====
